---- MODULE Spec2Model ----
(***************************************************************************)
(* The push fan-out relay of src/unnamed/part_000: POST /send-force-online *)
(* selects a token list from the request body, cuts it into batches of at  *)
(* most MAX tokens, hands the batches one after the other to               *)
(* sendBatchWithFallback, normalises each provider result into a batch     *)
(* summary and answers once.  The provider (admin.messaging()) is the      *)
(* environment: it settles the calls the handler issued.                   *)
(***************************************************************************)
EXTENDS Integers, Sequences, FiniteSets, TLC

VARIABLES
    caps,       \* the methods admin.messaging() exposes in this process
    pc,         \* position of the handler: "idle", "await" or "done"
    body,       \* req.body of the request being served
    tokens,     \* the selected token list (part_000:151)
    batches,    \* the batches cut from it (part_000:168)
    cur,        \* 1-based number of the batch being awaited, 0 before the loop
    summary,    \* the summaries pushed so far (part_000:173)
    resp,       \* the result of the last batch call that returned (part_000:175)
    calls,      \* every provider call issued so far, in issue order
    inflight,   \* indices into calls of the calls that have not settled
    outcome,    \* what each settled call settled with
    responses   \* the HTTP responses sent for the request, in order

vars == <<caps, pc, body, tokens, batches, cur, summary, resp, calls, inflight, outcome, responses>>

-----------------------------------------------------------------------------
(* Bounds of the model. *)

\* Longest token list whose contents, per-target outcomes and settle order
\* are enumerated exhaustively.
MaxLen == 3

(* Program constants. *)

MAX == 500

Min(a, b) == IF a <= b THEN a ELSE b

-----------------------------------------------------------------------------
(* Values a caller can put in a token list.  The handler never looks into  *)
(* a token, so a token is a record of the properties the claims speak of:  *)
(* whether it is a string, whether it has surrounding whitespace, its      *)
(* trimmed length, its trimmed lower-cased text class and an identity      *)
(* (two tokens are the same JavaScript value iff the records are equal).   *)

StringToken(lower, id, len, padded) ==
    [isString |-> TRUE, lower |-> lower, id |-> id, len |-> len, padded |-> padded]

\* The i-th of a family of distinct well-formed registration tokens.
GoodToken(i) == StringToken("token", i, 24, FALSE)

TokShort == StringToken("short", 0, 5, FALSE)

TokNumber == [isString |-> FALSE, lower |-> "42", id |-> 0, len |-> 0, padded |-> FALSE]

SmallTokens == {GoodToken(1), GoodToken(2), TokShort, TokNumber}

RECURSIVE SeqsUpTo(_, _)
SeqsUpTo(S, n) ==
    IF n = 0 THEN {<<>>}
    ELSE LET shorter == SeqsUpTo(S, n - 1)
         IN  shorter \cup {Append(s, x) : s \in {t \in shorter : Len(t) = n - 1}, x \in S}

SmallLists == SeqsUpTo(SmallTokens, MaxLen)

\* Lengths around the batch size: one full batch, one token more, the
\* spec's 1234-token example.
LongLens == {MAX, MAX + 1, 2 * MAX + 234}

LongLists == {[i \in 1..n |-> GoodToken(i)] : n \in LongLens}

(* A field of the JSON body: absent, a non-array value, or an array. *)
Absent == [kind |-> "absent", items |-> <<>>]
NonArray == [kind |-> "string", items |-> <<>>]
Null == [kind |-> "null", items |-> <<>>]
Array(l) == [kind |-> "array", items |-> l]

TokenFields == {Absent, NonArray} \cup {Array(l) : l \in SmallLists \cup LongLists}

RegistrationFields == {NonArray, Array(<<>>), Array(<<GoodToken(2), GoodToken(1)>>)}

\* Every token field alone, and the short ones beside a registration_ids field.
Bodies ==
    {[tokens |-> t, registration_ids |-> Absent] : t \in TokenFields}
        \cup {[tokens |-> t, registration_ids |-> r] :
                 t \in {f \in TokenFields : Len(f.items) <= 1}, r \in RegistrationFields}

NoBody == [tokens |-> Absent, registration_ids |-> Absent]

Methods == {"sendMulticast", "sendAll", "send"}

-----------------------------------------------------------------------------
(* The batching loop. *)

\* Mutant of Slice: the end index taken as inclusive of one element less.
Slice_DropsLast(s, from, to) == SubSeq(s, from + 1, Min(to, Len(s)) - 1)

\* Array.prototype.slice(from, to) for 0 <= from <= to, on a 1-based sequence.
Slice(s, from, to) == SubSeq(s, from + 1, Min(to, Len(s)))

RECURSIVE BatchesFrom(_, _, _)
BatchesFrom(toks, i, max) ==
    IF i < Len(toks)
    THEN <<Slice(toks, i, i + max)>> \o BatchesFrom(toks, i + max, max)
    ELSE <<>>

Batches(toks) == BatchesFrom(toks, 0, MAX)

-----------------------------------------------------------------------------
(* Input selection and validation. *)

IsArray(f) == f.kind = "array"

\* Mutant of SelectTokens: an empty tokens array falls through to
\* registration_ids.
SelectTokens_SkipsEmpty(b) ==
    IF IsArray(b.tokens) /\ Len(b.tokens.items) > 0 THEN b.tokens
    ELSE IF IsArray(b.registration_ids) THEN b.registration_ids
    ELSE Null

SelectTokens(b) ==
    IF IsArray(b.tokens) THEN b.tokens
    ELSE IF IsArray(b.registration_ids) THEN b.registration_ids
    ELSE Null

NoTokens(f) == f.kind = "null" \/ Len(f.items) = 0

-----------------------------------------------------------------------------
(* JavaScript values the handler handles. *)

\* null, as the value of a report's error or success field.
NULL == "<null>"

\* An error value: nothing (null or undefined), a string, or an object with
\* a message property ("" when it has none); text is String(value).
NoError == [kind |-> "none", message |-> "", text |-> "undefined"]
StringError(s) == [kind |-> "string", message |-> "", text |-> s]
ObjectError(m, str) == [kind |-> "object", message |-> m, text |-> str]

Truthy(e) == e.kind = "object" \/ (e.kind = "string" /\ e.text # "")

\* e?.message, "" standing for a missing or empty one.
MessageOf(e) == IF e.kind = "object" THEN e.message ELSE ""

-----------------------------------------------------------------------------
(* The provider: what a call can settle with. *)

\* Errors a whole call can fail with: one with a message, one without.
CallErrors ==
    {ObjectError("fcm transport failure", "Error: fcm transport failure"),
     ObjectError("", "[object Object]")}

\* An error object that also carries an axios-like response (err.response
\* with status and data) and an enumerable code property.
HttpError(m, str, status, data, code) ==
    [kind |-> "object", message |-> m, text |-> str,
     response |-> [status |-> status, data |-> data], code |-> code]

\* Errors a bulk call can fail with: those of CallErrors, and errors with
\* the same message that differ in status, response body and code.
BatchErrors ==
    CallErrors
        \cup {HttpError("fcm transport failure", "Error: fcm transport failure",
                        401, "UNAUTHENTICATED", "messaging/authentication-error"),
              HttpError("fcm transport failure", "Error: fcm transport failure",
                        503, "backend unavailable", "messaging/server-unavailable")}

\* Errors reported for one target inside a bulk result of n targets: an
\* error object or a bare string (an object only, for a long batch).
TargetErrors(n) ==
    {ObjectError("registration-token-not-registered", "Error: registration-token-not-registered")}
        \cup (IF n <= MaxLen THEN {StringError("NotRegistered")} ELSE {})

\* The sets of failing positions tried for a batch of n targets: every one
\* for a short batch, the corner cases for a long one.
FailSets(n) == IF n <= MaxLen THEN SUBSET (1..n) ELSE {{}, {1}, 1..n}

TargetResponses(n, F, e) ==
    [i \in 1..n |-> IF i \in F THEN [success |-> FALSE, error |-> e]
                               ELSE [success |-> TRUE, error |-> NoError]]

CountSuccess(rs) == Cardinality({i \in 1..Len(rs) : rs[i].success})

\* The three result shapes: counts and responses, responses only, neither.
FullResult(rs) ==
    [hasCounts |-> TRUE, successCount |-> CountSuccess(rs),
     failureCount |-> Len(rs) - CountSuccess(rs), hasResponses |-> TRUE, responses |-> rs]
ResponsesOnly(rs) ==
    [hasCounts |-> FALSE, successCount |-> 0, failureCount |-> 0,
     hasResponses |-> TRUE, responses |-> rs]
BareResult ==
    [hasCounts |-> FALSE, successCount |-> 0, failureCount |-> 0,
     hasResponses |-> FALSE, responses |-> <<>>]

\* What a provider call settles with: it raised err, or it returned result.
Raised(e) == [raised |-> TRUE, err |-> e, result |-> BareResult]
Returned(r) == [raised |-> FALSE, err |-> NoError, result |-> r]

BulkResults(n) ==
    LET rss == {TargetResponses(n, F, e) : F \in FailSets(n) \ {{}}, e \in TargetErrors(n)}
                   \cup {TargetResponses(n, {}, NoError)}
    IN  {FullResult(rs) : rs \in rss} \cup {ResponsesOnly(rs) : rs \in rss} \cup {BareResult}

BulkOutcomes(n) == {Raised(e) : e \in BatchErrors} \cup {Returned(r) : r \in BulkResults(n)}

\* messaging.send resolves with an opaque message id or rejects.
SendOutcomes == {Raised(e) : e \in CallErrors} \cup {Returned(BareResult)}

-----------------------------------------------------------------------------
(* sendBatchWithFallback: the messages, the strategy, the calls. *)

Ttl == 60 * 1000

MulticastMessage(batchTokens) ==
    [tokens |-> batchTokens,
     data |-> [action |-> "start_core_service"],
     android |-> [priority |-> "high", ttl |-> Ttl]]

TokenMessage(token) ==
    [token |-> token,
     data |-> [action |-> "start_core_service"],
     android |-> [priority |-> "high", ttl |-> Ttl]]

\* Mutant of Strategy: the sendAll check placed before the sendMulticast check.
Strategy_SendAllFirst(methods) ==
    IF "sendAll" \in methods THEN "sendAll"
    ELSE IF "sendMulticast" \in methods THEN "sendMulticast"
    ELSE "send"

\* The ladder of typeof checks: the first method present is the one used;
\* without either bulk method the per-token branch runs.
Strategy(methods) ==
    IF "sendMulticast" \in methods THEN "sendMulticast"
    ELSE IF "sendAll" \in methods THEN "sendAll"
    ELSE "send"

\* messaging.send(...) on a handle without send throws before any call.
SendMissing(methods) == Strategy(methods) = "send" /\ "send" \notin methods

NotAFunction == ObjectError("messaging.send is not a function",
                            "TypeError: messaging.send is not a function")

\* The provider calls sendBatchWithFallback issues for batch number k, in
\* issue order; slot is the call's place in the promises array (0 for a
\* bulk call).
IssueCalls(methods, batchTokens, k) ==
    CASE Strategy(methods) = "sendMulticast" ->
           <<[method |-> "sendMulticast", batch |-> k, slot |-> 0,
              arg |-> MulticastMessage(batchTokens)]>>
      [] Strategy(methods) = "sendAll" ->
           <<[method |-> "sendAll", batch |-> k, slot |-> 0,
              arg |-> [i \in 1..Len(batchTokens) |-> TokenMessage(batchTokens[i])]]>>
      [] OTHER ->
           [i \in 1..Len(batchTokens) |->
              [method |-> "send", batch |-> k, slot |-> i,
               arg |-> TokenMessage(batchTokens[i])]]

\* Mutant of SettledResponse: a rejected send reported as a success.
SettledResponse_AlwaysSuccess(o) == [success |-> TRUE, error |-> NoError]

\* The per-token branch's aggregation of the settled promises.
SettledResponse(o) ==
    IF ~o.raised THEN [success |-> TRUE, error |-> NoError]
    ELSE [success |-> FALSE,
          error |-> StringError(IF Truthy(o.err) /\ MessageOf(o.err) # ""
                                THEN MessageOf(o.err) ELSE o.err.text)]

Aggregate(settled) ==
    LET rs == [i \in 1..Len(settled) |-> SettledResponse(settled[i])]
        successCount == Cardinality({i \in 1..Len(rs) : rs[i].success})
    IN  [hasCounts |-> TRUE, successCount |-> successCount,
         failureCount |-> Len(rs) - successCount, hasResponses |-> TRUE, responses |-> rs]

\* What the awaited sendBatchWithFallback(batch) settles with, given the
\* calls it issued (indices first..last of the log) and their outcomes.
BatchOutcome(methods, outc, first, last) ==
    IF Strategy(methods) \in {"sendMulticast", "sendAll"}
    THEN outc[first]
    ELSE Returned(Aggregate([i \in 1..(last - first + 1) |-> outc[first + i - 1]]))

-----------------------------------------------------------------------------
(* The handler's normalisation of a batch result. *)

ErrorText(e) ==
    IF Truthy(e) THEN (IF MessageOf(e) # "" THEN MessageOf(e) ELSE e.text) ELSE NULL

Bool(b) == IF b THEN "true" ELSE "false"

\* Mutant of Normalize: a count the result does not expose is reported as
\* 0 (resp.successCount || 0) instead of being derived from the responses.
Normalize_MissingCountIsZero(result, batch) ==
    LET responsesArray == IF result.hasResponses THEN result.responses ELSE <<>>
        mapped ==
            IF Len(responsesArray) > 0
            THEN [i \in 1..Len(responsesArray) |->
                    [success |-> Bool(responsesArray[i].success),
                     error |-> ErrorText(responsesArray[i].error),
                     index |-> i - 1]]
            ELSE [i \in 1..Len(batch) |->
                    [success |-> NULL, error |-> "no per-target info", index |-> i - 1]]
    IN  [batchSize |-> Len(batch),
         successCount |-> IF result.hasCounts THEN result.successCount ELSE 0,
         failureCount |-> IF result.hasCounts THEN result.failureCount ELSE 0,
         details |-> mapped]

\* Lines 206-216 and the object pushed at 224-229.  A result exposes both
\* counts or neither.
Normalize(result, batch) ==
    LET responsesArray == IF result.hasResponses THEN result.responses ELSE <<>>
        successCount ==
            IF result.hasCounts THEN result.successCount
            ELSE Cardinality({i \in 1..Len(responsesArray) : responsesArray[i].success})
        failureCount ==
            IF result.hasCounts THEN result.failureCount
            ELSE Len(responsesArray) - successCount
        mapped ==
            IF Len(responsesArray) > 0
            THEN [i \in 1..Len(responsesArray) |->
                    [success |-> Bool(responsesArray[i].success),
                     error |-> ErrorText(responsesArray[i].error),
                     index |-> i - 1]]
            ELSE [i \in 1..Len(batch) |->
                    [success |-> NULL, error |-> "no per-target info", index |-> i - 1]]
    IN  [batchSize |-> Len(batch), successCount |-> successCount,
         failureCount |-> failureCount, details |-> mapped]

-----------------------------------------------------------------------------
(* HTTP responses. *)

Json(status, payload) == [status |-> status, body |-> payload]

BadRequest == Json(400, [success |-> FALSE, error |-> "No tokens provided or invalid format"])

\* Mutant of SendFailed: the status of err.response is copied into the
\* body sent to the client.
SendFailed_WithStatus(err) ==
    Json(500, [success |-> FALSE,
               error |-> IF MessageOf(err) # "" THEN MessageOf(err) ELSE "send_error",
               status |-> IF "response" \in DOMAIN err THEN err.response.status ELSE 0])

SendFailed(err) ==
    Json(500, [success |-> FALSE,
               error |-> IF MessageOf(err) # "" THEN MessageOf(err) ELSE "send_error"])

\* Mutant of Report: only the summary of the last batch is reported, as if
\* each turn of the loop replaced the summary instead of pushing onto it.
Report_LastOnly(summ) ==
    Json(200, [success |-> TRUE,
               batches |-> IF summ = <<>> THEN <<>> ELSE <<summ[Len(summ)]>>])

Report(summ) == Json(200, [success |-> TRUE, batches |-> summ])

-----------------------------------------------------------------------------
(* The state machine. *)

\* Placeholder in outcome for a call that has not settled (see inflight).
Unsettled == Returned(BareResult)

Init ==
    /\ caps \in SUBSET Methods
    /\ pc = "idle"
    /\ body = NoBody
    /\ tokens = Null
    /\ batches = <<>>
    /\ cur = 0
    /\ summary = <<>>
    /\ resp = BareResult
    /\ calls = <<>>
    /\ inflight = {}
    /\ outcome = <<>>
    /\ responses = <<>>

\* Mutant of DispatchBatch: every batch is dispatched on the first turn,
\* as Promise.all(batches.map(sendBatchWithFallback)) would.
RECURSIVE CallsFrom(_, _, _)
CallsFrom(methods, bs, j) ==
    IF j > Len(bs) THEN <<>> ELSE IssueCalls(methods, bs[j], j) \o CallsFrom(methods, bs, j + 1)

DispatchBatch_Eager(methods, bs, k) == IF k = 1 THEN CallsFrom(methods, bs, 1) ELSE <<>>

\* Mutant of DispatchBatch: the batch call is made a second time (a retry
\* wrapped around sendBatchWithFallback).
DispatchBatch_Twice(methods, bs, k) ==
    IssueCalls(methods, bs[k], k) \o IssueCalls(methods, bs[k], k)

\* The calls issued when the loop reaches batch number k: those of
\* sendBatchWithFallback(batch), and of no other batch.
DispatchBatch(methods, bs, k) == IssueCalls(methods, bs[k], k)

\* Mutant of Rejected: the catch branch logs and falls through to the
\* normalisation instead of returning.
Rejected_Never(o) == FALSE

\* Mutant of Rejected: a result that reports failed targets is treated as
\* a failed batch call.
Rejected_OnTargetFailure(o) ==
    o.raised \/ (o.result.hasCounts /\ o.result.failureCount > 0)

\* try { resp = await ... } catch (err) { ... return 500 }: a rejected
\* batch call takes the catch branch.
Rejected(o) == o.raised

\* Mutant of Awaited: the batch result is built without joining the
\* per-token promises (no await Promise.all).
Awaited_NotJoined(pending) == TRUE

\* Mutant of Awaited: the handler awaits a promise that nothing settles.
Awaited_Never(pending) == FALSE

\* await: the handler resumes when the promise it awaits has settled, which
\* is when every call of the batch has.
Awaited(pending) == pending = {}

\* One turn of "for (const batch of batches)" from batch number k with
\* summ pushed so far, up to the next await or the response.
Loop(bs, k, summ) ==
    /\ summary' = summ
    /\ IF k > Len(bs)
       THEN /\ pc' = "done"
            /\ responses' = Append(responses, Report(summ))
            /\ UNCHANGED <<cur, calls, inflight, outcome>>
       ELSE IF SendMissing(caps)
       THEN /\ pc' = "done"
            /\ cur' = k
            /\ responses' = Append(responses, SendFailed(NotAFunction))
            /\ UNCHANGED <<calls, inflight, outcome>>
       ELSE LET new == DispatchBatch(caps, bs, k)
            IN  /\ pc' = "await"
                /\ cur' = k
                /\ calls' = calls \o new
                /\ inflight' = (Len(calls) + 1)..(Len(calls) + Len(new))
                /\ outcome' = outcome \o [i \in 1..Len(new) |-> Unsettled]
                /\ UNCHANGED responses

\* POST /send-force-online arrives with body b: selection, validation,
\* batching and the first turn of the loop.
Post(b) ==
    /\ pc = "idle"
    /\ body' = b
    /\ tokens' = SelectTokens(b)
    /\ UNCHANGED caps
    /\ IF NoTokens(SelectTokens(b))
       THEN /\ pc' = "done"
            /\ responses' = Append(responses, BadRequest)
            /\ UNCHANGED <<batches, cur, summary, resp, calls, inflight, outcome>>
       ELSE /\ batches' = Batches(SelectTokens(b).items)
            /\ UNCHANGED resp
            /\ Loop(Batches(SelectTokens(b).items), 1, <<>>)

\* The awaited batch call has settled: the catch branch answers 500, else
\* the result is normalised, pushed, and the loop goes on.
Resume ==
    /\ pc = "await"
    /\ Awaited(inflight)
    /\ LET n == IF Strategy(caps) = "send" THEN Len(batches[cur]) ELSE 1
       IN  \E o \in {BatchOutcome(caps, outcome, Len(calls) - n + 1, Len(calls))} :
             IF Rejected(o)
             THEN /\ pc' = "done"
                  /\ responses' = Append(responses, SendFailed(o.err))
                  /\ UNCHANGED <<cur, summary, resp, calls, inflight, outcome>>
             ELSE /\ resp' = o.result
                  /\ Loop(batches, cur + 1, Append(summary, Normalize(o.result, batches[cur])))
    /\ UNCHANGED <<caps, body, tokens, batches>>

Settle(c, o) ==
    /\ outcome' = [outcome EXCEPT ![c] = o]
    /\ inflight' = inflight \ {c}
    /\ UNCHANGED <<caps, pc, body, tokens, batches, cur, summary, resp, calls, responses>>

\* The provider settles a sendMulticast or sendAll call.
BulkSettles ==
    \E c \in inflight :
        /\ calls[c].method \in {"sendMulticast", "sendAll"}
        /\ \E o \in BulkOutcomes(Len(batches[calls[c].batch])) : Settle(c, o)

\* The provider settles one send call of a short batch, in any order.
SendSettles ==
    \E c \in inflight :
        /\ calls[c].method = "send"
        /\ Len(batches[calls[c].batch]) <= MaxLen
        /\ \E o \in SendOutcomes : Settle(c, o)

\* The send calls of a long batch settle; the handler runs no code between
\* their settlements, so they are taken in one step.
SendSettlesAll ==
    /\ inflight # {}
    /\ {c \in inflight : calls[c].method # "send" \/ Len(batches[calls[c].batch]) <= MaxLen} = {}
    /\ \E F \in FailSets(Len(batches[cur])), e \in CallErrors :
          outcome' = [c \in 1..Len(outcome) |->
                        IF c \in inflight
                        THEN (IF calls[c].slot \in F THEN Raised(e) ELSE Returned(BareResult))
                        ELSE outcome[c]]
    /\ inflight' = {}
    /\ UNCHANGED <<caps, pc, body, tokens, batches, cur, summary, resp, calls, responses>>

Next ==
    \/ \E b \in Bodies : Post(b)
    \/ Resume
    \/ BulkSettles
    \/ SendSettles
    \/ SendSettlesAll

Spec == Init /\ [][Next]_vars

\* The scheduling the runtime and the provider give: a continuation whose
\* promise has settled is run, and a call in flight is settled.
Fairness ==
    /\ WF_vars(Resume)
    /\ WF_vars(BulkSettles)
    /\ WF_vars(SendSettles)
    /\ WF_vars(SendSettlesAll)

\* The requests followed to their end under that scheduling: no list, one
\* token, two tokens, a full batch, and a full batch and one token more.
LiveBodies ==
    {NoBody}
        \cup {[tokens |-> Array(l), registration_ids |-> Absent] :
                 l \in {<<GoodToken(1)>>, <<GoodToken(1), TokShort>>}
                          \cup {[i \in 1..n |-> GoodToken(i)] : n \in {MAX, MAX + 1}}}

NextLive ==
    \/ \E b \in LiveBodies : Post(b)
    \/ Resume
    \/ BulkSettles
    \/ SendSettles
    \/ SendSettlesAll

FairSpec == Init /\ [][NextLive]_vars /\ Fairness

-----------------------------------------------------------------------------
(* The selection and batching steps alone, on every list length up to      *)
(* MaxTokens.                                                              *)

MaxTokens == 1234

InitPartition ==
    /\ caps = {}
    /\ pc = "idle"
    /\ body \in {[tokens |-> Array([i \in 1..n |-> GoodToken(i)]), registration_ids |-> Absent] :
                   n \in 0..MaxTokens}
    /\ tokens = Null
    /\ batches = <<>>
    /\ cur = 0
    /\ summary = <<>>
    /\ resp = BareResult
    /\ calls = <<>>
    /\ inflight = {}
    /\ outcome = <<>>
    /\ responses = <<>>

\* Lines 150-171 for a body that passes validation.
Partition ==
    /\ pc = "idle"
    /\ ~NoTokens(SelectTokens(body))
    /\ tokens' = SelectTokens(body)
    /\ batches' = Batches(SelectTokens(body).items)
    /\ pc' = "batched"
    /\ UNCHANGED <<caps, body, cur, summary, resp, calls, inflight, outcome, responses>>

PartitionSpec == InitPartition /\ [][Partition]_vars

-----------------------------------------------------------------------------
(* Two requests served by one process.  Express starts the async handler   *)
(* once per request; at each await the other request may run.  Every       *)
(* variable holds one value per request; the provider handle (caps) is the *)
(* process's.                                                              *)

Reqs == {1, 2}

\* Mutant of Frame: tokens, batches, summary and resp declared once at
\* module level, so that both requests use the same bindings.
Frame_ModuleLevel(r) == 1

\* The bindings of the handler's let/const declarations (tokens, batches,
\* summary, resp) that request r uses: those of its own invocation.
Frame(r) == r

TwoBodies ==
    {NoBody}
        \cup {[tokens |-> Array(l), registration_ids |-> Absent] :
                 l \in {<<GoodToken(1)>>, <<GoodToken(2), TokShort>>,
                        [i \in 1..(MAX + 1) |-> GoodToken(i)]}}

TwoCaps == {Methods, {"sendAll", "send"}, {"send"}}

InitTwo ==
    /\ caps \in TwoCaps
    /\ pc = [r \in Reqs |-> "idle"]
    /\ body = [r \in Reqs |-> NoBody]
    /\ tokens = [r \in Reqs |-> Null]
    /\ batches = [r \in Reqs |-> <<>>]
    /\ cur = [r \in Reqs |-> 0]
    /\ summary = [r \in Reqs |-> <<>>]
    /\ resp = [r \in Reqs |-> BareResult]
    /\ calls = [r \in Reqs |-> <<>>]
    /\ inflight = [r \in Reqs |-> {}]
    /\ outcome = [r \in Reqs |-> <<>>]
    /\ responses = [r \in Reqs |-> <<>>]

\* Loop, for request r.
TwoLoop(r, bs, k, summ) ==
    /\ summary' = [summary EXCEPT ![Frame(r)] = summ]
    /\ IF k > Len(bs)
       THEN /\ pc' = [pc EXCEPT ![r] = "done"]
            /\ responses' = [responses EXCEPT ![r] = Append(@, Report(summ))]
            /\ UNCHANGED <<cur, calls, inflight, outcome>>
       ELSE IF SendMissing(caps)
       THEN /\ pc' = [pc EXCEPT ![r] = "done"]
            /\ cur' = [cur EXCEPT ![r] = k]
            /\ responses' = [responses EXCEPT ![r] = Append(@, SendFailed(NotAFunction))]
            /\ UNCHANGED <<calls, inflight, outcome>>
       ELSE LET new == DispatchBatch(caps, bs, k)
            IN  /\ pc' = [pc EXCEPT ![r] = "await"]
                /\ cur' = [cur EXCEPT ![r] = k]
                /\ calls' = [calls EXCEPT ![r] = @ \o new]
                /\ inflight' = [inflight EXCEPT
                                  ![r] = (Len(calls[r]) + 1)..(Len(calls[r]) + Len(new))]
                /\ outcome' = [outcome EXCEPT ![r] = @ \o [i \in 1..Len(new) |-> Unsettled]]
                /\ UNCHANGED responses

\* Post, for request r.
TwoPost(r, b) ==
    /\ pc[r] = "idle"
    /\ body' = [body EXCEPT ![r] = b]
    /\ tokens' = [tokens EXCEPT ![Frame(r)] = SelectTokens(b)]
    /\ UNCHANGED caps
    /\ IF NoTokens(SelectTokens(b))
       THEN /\ pc' = [pc EXCEPT ![r] = "done"]
            /\ responses' = [responses EXCEPT ![r] = Append(@, BadRequest)]
            /\ UNCHANGED <<batches, cur, summary, resp, calls, inflight, outcome>>
       ELSE /\ batches' = [batches EXCEPT ![Frame(r)] = Batches(SelectTokens(b).items)]
            /\ UNCHANGED resp
            /\ TwoLoop(r, Batches(SelectTokens(b).items), 1, <<>>)

\* Resume, for request r.
TwoResume(r) ==
    /\ pc[r] = "await"
    /\ Awaited(inflight[r])
    /\ LET bs == batches[Frame(r)]
           n == IF Strategy(caps) = "send" THEN Len(bs[cur[r]]) ELSE 1
           o == BatchOutcome(caps, outcome[r], Len(calls[r]) - n + 1, Len(calls[r]))
       IN  IF Rejected(o)
           THEN /\ pc' = [pc EXCEPT ![r] = "done"]
                /\ responses' = [responses EXCEPT ![r] = Append(@, SendFailed(o.err))]
                /\ UNCHANGED <<cur, summary, resp, calls, inflight, outcome>>
           ELSE /\ resp' = [resp EXCEPT ![Frame(r)] = o.result]
                /\ TwoLoop(r, bs, cur[r] + 1,
                           Append(summary[Frame(r)], Normalize(o.result, bs[cur[r]])))
    /\ UNCHANGED <<caps, body, tokens, batches>>

\* What the provider settles a bulk call of n targets with, here: a
\* failure of the call, and one result of each shape.
TwoBulkOutcomes(n) ==
    {Raised(ObjectError("fcm transport failure", "Error: fcm transport failure")),
     Returned(FullResult(TargetResponses(n, {}, NoError))),
     Returned(ResponsesOnly(TargetResponses(n, {1}, StringError("NotRegistered")))),
     Returned(BareResult)}

\* The provider settles the calls request r has in flight: its bulk call,
\* or the send calls of its batch, all succeeding or the first failing.
TwoSettles(r) ==
    /\ inflight[r] # {}
    /\ LET n == Len(batches[Frame(r)][cur[r]])
       IN  IF Strategy(caps) \in {"sendMulticast", "sendAll"}
           THEN \E o \in TwoBulkOutcomes(n) :
                    outcome' = [outcome EXCEPT ![r][Len(calls[r])] = o]
           ELSE \E F \in {{}, {1}}, e \in CallErrors :
                    outcome' = [outcome EXCEPT ![r] =
                                  [c \in 1..Len(@) |->
                                     IF c \in inflight[r]
                                     THEN (IF calls[r][c].slot \in F
                                           THEN Raised(e) ELSE Returned(BareResult))
                                     ELSE @[c]]]
    /\ inflight' = [inflight EXCEPT ![r] = {}]
    /\ UNCHANGED <<caps, pc, body, tokens, batches, cur, summary, resp, calls, responses>>

NextTwo ==
    \E r \in Reqs :
        \/ \E b \in TwoBodies : TwoPost(r, b)
        \/ TwoResume(r)
        \/ TwoSettles(r)

TwoSpec == InitTwo /\ [][NextTwo]_vars

-----------------------------------------------------------------------------
(* The normalisation alone (part_000:204-229), on every result a provider  *)
(* could hand back for a batch: counts of any value or none, a responses   *)
(* array of any length up to MaxLen or none.                               *)

ResponseArrays ==
    UNION {{TargetResponses(m, F, e) : F \in SUBSET (1..m) \ {{}}, e \in TargetErrors(m)}
              \cup {TargetResponses(m, {}, NoError)} : m \in 0..MaxLen}

ResultShapes ==
    {[hasCounts |-> TRUE, successCount |-> s, failureCount |-> f,
      hasResponses |-> TRUE, responses |-> rs] :
         s \in 0..MaxLen, f \in 0..MaxLen, rs \in ResponseArrays}
      \cup {[hasCounts |-> TRUE, successCount |-> s, failureCount |-> f,
             hasResponses |-> FALSE, responses |-> <<>>] : s \in 0..MaxLen, f \in 0..MaxLen}
      \cup {ResponsesOnly(rs) : rs \in ResponseArrays}
      \cup {BareResult}

InitNormalize ==
    /\ caps = {"sendMulticast"}
    /\ pc = "await"
    /\ body = NoBody
    /\ tokens = Null
    /\ batches \in {<<[i \in 1..n |-> GoodToken(i)]>> : n \in 1..MaxLen}
    /\ cur = 1
    /\ summary = <<>>
    /\ resp \in ResultShapes
    /\ calls = <<>>
    /\ inflight = {}
    /\ outcome = <<>>
    /\ responses = <<>>

\* Lines 204-229 for the batch and the result just received.
NormalizeStep ==
    /\ pc = "await"
    /\ summary' = Append(summary, Normalize(resp, batches[cur]))
    /\ pc' = "normalized"
    /\ UNCHANGED <<caps, body, tokens, batches, cur, resp, calls, inflight, outcome, responses>>

NormalizeSpec == InitNormalize /\ [][NormalizeStep]_vars

-----------------------------------------------------------------------------
(* The earlier single-call revision of the route, src/index.js:182-237: it *)
(* reads only body.tokens, cuts no batches and calls sendMulticast once.   *)

\* index.js:214-217: the message has data and tokens, and nothing else.
SimpleMessage(field) == [data |-> [action |-> "start_core_service"], tokens |-> field]

\* "!tokens || tokens.length === 0" on the destructured tokens field: a
\* missing field and an empty array are refused, anything else goes on.
SimpleNoTokens(f) == f.kind = "absent" \/ (f.kind = "array" /\ Len(f.items) = 0)

SimpleBadRequest == Json(400, [success |-> FALSE, error |-> "No tokens provided"])

\* index.js:228-230: err.message as it is (NULL when there is none).
SimpleFailed(err) ==
    Json(500, [success |-> FALSE,
               error |-> IF MessageOf(err) # "" THEN MessageOf(err) ELSE NULL])

\* index.js:221-226: the provider result handed back field by field.
SimpleReport(result) ==
    Json(200, [success |-> TRUE,
               sentCount |-> IF result.hasCounts THEN result.successCount ELSE -1,
               failureCount |-> IF result.hasCounts THEN result.failureCount ELSE -1,
               responses |-> result.responses])

MulticastMissing ==
    ObjectError("admin.messaging(...).sendMulticast is not a function",
                "TypeError: admin.messaging(...).sendMulticast is not a function")

\* What sendMulticast settles with for the tokens value it was given: a
\* value that is not an array is rejected by the provider.
SimpleOutcomes(f) ==
    IF f.kind = "array" THEN BulkOutcomes(Len(f.items)) ELSE {Raised(e) : e \in CallErrors}

\* The request arrives: validation, then the one sendMulticast call.
SimplePost(b) ==
    /\ pc = "idle"
    /\ body' = b
    /\ tokens' = b.tokens
    /\ UNCHANGED <<caps, batches, cur, summary, resp>>
    /\ IF SimpleNoTokens(b.tokens)
       THEN /\ pc' = "done"
            /\ responses' = Append(responses, SimpleBadRequest)
            /\ UNCHANGED <<calls, inflight, outcome>>
       ELSE IF "sendMulticast" \notin caps
       THEN /\ pc' = "done"
            /\ responses' = Append(responses, SimpleFailed(MulticastMissing))
            /\ UNCHANGED <<calls, inflight, outcome>>
       ELSE /\ pc' = "await"
            /\ calls' = <<[method |-> "sendMulticast", batch |-> 1, slot |-> 0,
                           arg |-> SimpleMessage(b.tokens)]>>
            /\ inflight' = {1}
            /\ outcome' = <<Unsettled>>
            /\ UNCHANGED responses

\* The provider settles the call.
SimpleSettles ==
    /\ inflight = {1}
    /\ \E o \in SimpleOutcomes(tokens) : Settle(1, o)

\* The awaited call has settled: the report, or the catch's 500.
SimpleResume ==
    /\ pc = "await"
    /\ Awaited(inflight)
    /\ pc' = "done"
    /\ IF outcome[1].raised
       THEN responses' = Append(responses, SimpleFailed(outcome[1].err)) /\ UNCHANGED resp
       ELSE responses' = Append(responses, SimpleReport(outcome[1].result))
                /\ resp' = outcome[1].result
    /\ UNCHANGED <<caps, body, tokens, batches, cur, summary, calls, inflight, outcome>>

SimpleNext ==
    \/ \E b \in Bodies : SimplePost(b)
    \/ SimpleSettles
    \/ SimpleResume

SimpleSpec == Init /\ [][SimpleNext]_vars

-----------------------------------------------------------------------------
(* Vocabulary of the properties. *)

BulkMethods == {"sendMulticast", "sendAll"}

CallIds == 1..Len(calls)

\* Call c has settled by raising.
CallRaised(c) == c \notin inflight /\ outcome[c].raised

\* The batch call of batch number k failed as a whole: its bulk call
\* raised, or the handle has no send for the per-token branch to call.
BatchCallFailed(k) ==
    \/ \E c \in CallIds : calls[c].batch = k /\ calls[c].method \in BulkMethods /\ CallRaised(c)
    \/ SendMissing(caps) /\ cur = k

\* The messages ("" for none) of the errors that failed batch number k.
FailureMessages(k) ==
    {outcome[c].err.message :
        c \in {d \in CallIds : calls[d].batch = k /\ calls[d].method \in BulkMethods /\ CallRaised(d)}}
      \cup (IF SendMissing(caps) /\ cur = k THEN {"messaging.send is not a function"} ELSE {})

Answered == pc = "done" /\ Len(responses) = 1

Accepted == pc # "idle" /\ tokens.kind = "array" /\ Len(tokens.items) > 0

-----------------------------------------------------------------------------
(* C1: when the batch call of batch k fails as a whole, no provider call   *)
(* is ever issued for a later batch, and the response is a 500 whose body  *)
(* is exactly {success: false, error: <message>}, without batches, also    *)
(* when earlier batches had been dispatched and summarised.                *)
C1_AbortOnBatchFailure ==
    \A k \in 1..Len(batches) :
        BatchCallFailed(k) =>
            /\ \A c \in CallIds : calls[c].batch <= k
            /\ pc = "done" =>
                 /\ Len(responses) = 1
                 /\ responses[1].status = 500
                 /\ DOMAIN responses[1].body = {"success", "error"}
                 /\ responses[1].body.success = FALSE
                 /\ responses[1].body.error \in
                      (FailureMessages(k) \ {""})
                          \cup (IF "" \in FailureMessages(k) THEN {"send_error"} ELSE {})

\* The second of three batches failed after the first was summarised.
C1_Witness ==
    /\ pc = "done"
    /\ Len(batches) = 3
    /\ BatchCallFailed(2)
    /\ Len(summary) = 1
    /\ Len(responses) = 1
    /\ responses[1].status = 500

-----------------------------------------------------------------------------
(* C2: the batches are contiguous slices of the token list in input order  *)
(* whose concatenation is the list: there are ceil(n / MAX) of them, each  *)
(* of 1 to MAX tokens, all but the last of exactly MAX.                    *)
C2_Partition ==
    (pc # "idle" /\ tokens.kind = "array" /\ Len(tokens.items) > 0) =>
        LET n == Len(tokens.items)
            m == Len(batches)
        IN  /\ m = (n + MAX - 1) \div MAX
            /\ \A j \in 1..m :
                 /\ Len(batches[j]) >= 1
                 /\ Len(batches[j]) <= MAX
                 /\ j < m => Len(batches[j]) = MAX
                 /\ \A i \in 1..Len(batches[j]) :
                        batches[j][i] = tokens.items[(j - 1) * MAX + i]
            /\ Len(batches[m]) = n - (m - 1) * MAX

\* The spec's example: 1234 tokens in batches of 500, 500 and 234.
C2_Witness ==
    /\ pc # "idle"
    /\ tokens.kind = "array"
    /\ Len(tokens.items) = 1234
    /\ [j \in 1..Len(batches) |-> Len(batches[j])] = <<500, 500, 234>>

-----------------------------------------------------------------------------
(* C3: every provider call of a request uses the one strategy the fixed    *)
(* priority picks: sendMulticast whenever it exists, sendAll only without  *)
(* sendMulticast, send only without both; a bulk strategy makes one call   *)
(* per batch, the per-token strategy one call per token.                   *)
C3_StrategyPriority ==
    /\ \A c \in CallIds :
         /\ "sendMulticast" \in caps => calls[c].method = "sendMulticast"
         /\ calls[c].method = "sendAll" => ("sendMulticast" \notin caps /\ "sendAll" \in caps)
         /\ calls[c].method = "send" => (caps \cap BulkMethods = {} /\ "send" \in caps)
    /\ \A k \in 1..Len(batches) :
         LET mine == {c \in CallIds : calls[c].batch = k}
         IN  mine # {} =>
               \/ Cardinality(mine) = 1 /\ \A c \in mine : calls[c].method \in BulkMethods
               \/ Cardinality(mine) = Len(batches[k]) /\ \A c \in mine : calls[c].method = "send"

\* All three methods exist and batches of both one token and MAX tokens
\* went out through sendMulticast.
C3_Witness ==
    /\ caps = Methods
    /\ pc = "done"
    /\ Len(batches) = 2
    /\ Len(batches[2]) = 1
    /\ Len(calls) = 2
    /\ calls[2].method = "sendMulticast"

-----------------------------------------------------------------------------
(* C4: in the per-token strategy the batch call never raises, whichever    *)
(* send calls fail: its result has one response per token of the batch in  *)
(* token order, response i successful iff the call for token i succeeded,  *)
(* successCount the number of succeeded and failureCount the number of     *)
(* failed calls.                                                           *)
C4_SequentialIsolation ==
    (Strategy(caps) = "send" /\ "send" \in caps) =>
        /\ Answered /\ Accepted =>
             (responses[1].status = 200 /\ Len(summary) = Len(batches))
        /\ Len(summary) >= 1 =>
             LET k == Len(summary)
                 n == Len(batches[k])
                 call(i) == (k - 1) * MAX + i
             IN  /\ resp.hasResponses
                 /\ Len(resp.responses) = n
                 /\ \A i \in 1..n :
                      /\ calls[call(i)].batch = k
                      /\ calls[call(i)].arg.token = batches[k][i]
                      /\ resp.responses[i].success = ~outcome[call(i)].raised
                 /\ resp.hasCounts
                 /\ resp.successCount = Cardinality({i \in 1..n : ~outcome[call(i)].raised})
                 /\ resp.failureCount = Cardinality({i \in 1..n : outcome[call(i)].raised})

\* A batch of three whose second send failed: counts 2 and 1, three entries.
C4_Witness ==
    /\ Strategy(caps) = "send"
    /\ pc = "done"
    /\ Len(batches) = 1
    /\ Len(batches[1]) = 3
    /\ Len(calls) = 3
    /\ outcome[2].raised
    /\ resp.successCount = 2
    /\ resp.failureCount = 1
    /\ Len(resp.responses) = 3
    /\ Len(summary[1].details) = 3

-----------------------------------------------------------------------------
(* C5: targets reported as failed never fail the request: when no batch    *)
(* call failed as a whole, the response is 200 with success true and one   *)
(* summary per batch, and every batch was dispatched.                      *)
C5_TargetFailuresReported ==
    (Answered /\ Accepted /\ \A k \in 1..Len(batches) : ~BatchCallFailed(k)) =>
        /\ responses[1].status = 200
        /\ responses[1].body.success = TRUE
        /\ Len(responses[1].body.batches) = Len(batches)
        /\ \A k \in 1..Len(batches) : \E c \in CallIds : calls[c].batch = k

\* Every target of the first of two batches failed, and the second batch
\* was still dispatched and the report sent.
C5_Witness ==
    /\ Answered
    /\ Len(batches) = 2
    /\ responses[1].status = 200
    /\ summary[1].failureCount = MAX
    /\ summary[1].successCount = 0
    /\ \E c \in CallIds : calls[c].batch = 2

-----------------------------------------------------------------------------
(* Vocabulary of the input properties. *)

\* A field the caller left absent, empty or not an array.
Unusable(f) == f.kind # "array" \/ Len(f.items) = 0

Answered400 ==
    /\ Answered
    /\ responses[1].status = 400
    /\ DOMAIN responses[1].body = {"success", "error"}
    /\ responses[1].body.success = FALSE
    /\ responses[1].body.error = "No tokens provided or invalid format"

\* The CleanIdentifier invariant of the data model, on one value.
IsCleanIdentifier(t) ==
    /\ t.isString
    /\ ~t.padded
    /\ t.len >= 20
    /\ t.lower \notin {"", "unavailable", "null", "undefined"}

\* The tokens a provider call carries, in order.
CallTokens(c) ==
    CASE calls[c].method = "sendMulticast" -> calls[c].arg.tokens
      [] calls[c].method = "sendAll" -> [i \in 1..Len(calls[c].arg) |-> calls[c].arg[i].token]
      [] OTHER -> <<calls[c].arg.token>>

-----------------------------------------------------------------------------
(* C6 as stated: the answer is the 400 "No tokens provided or invalid      *)
(* format", with no provider call, exactly when both tokens and            *)
(* registration_ids are absent, empty or not an array, and a usable tokens *)
(* field is the list that is used.                                         *)
C6_Original ==
    /\ pc = "done" =>
         ((Answered400 /\ calls = <<>>)
             <=> (Unusable(body.tokens) /\ Unusable(body.registration_ids)))
    /\ (pc # "idle" /\ ~Unusable(body.tokens)) => tokens = body.tokens

(* C6 as amended: the list used is tokens when tokens is an array (empty   *)
(* or not), otherwise registration_ids when that is an array; the answer   *)
(* is that 400, with no provider call, exactly when there is no such array *)
(* or the array used is empty.                                             *)
C6_FirstArrayWins ==
    LET used == IF body.tokens.kind = "array" THEN body.tokens.items
                ELSE IF body.registration_ids.kind = "array" THEN body.registration_ids.items
                ELSE <<>>
    IN  /\ pc = "done" => ((Answered400 /\ calls = <<>>) <=> (used = <<>>))
        /\ (pc # "idle" /\ used # <<>>) => (tokens.kind = "array" /\ tokens.items = used)

\* An empty tokens array beside a usable registration_ids array: 400.
C6_Witness ==
    /\ Answered400
    /\ calls = <<>>
    /\ body.tokens = Array(<<>>)
    /\ ~Unusable(body.registration_ids)

-----------------------------------------------------------------------------
(* C7: batches are dispatched one at a time in batch order: the calls in   *)
(* flight all belong to the batch dispatched last, calls are issued in     *)
(* batch order, and a call for batch k + 1 exists only once the result of  *)
(* batch k has been received and summarised.                               *)
C7_OneBatchAtATime ==
    /\ \A c \in inflight : calls[c].batch = calls[Len(calls)].batch
    /\ \A c \in CallIds :
         /\ c > 1 => calls[c - 1].batch <= calls[c].batch
         /\ Len(summary) >= calls[c].batch - 1

\* The second batch's per-token calls are in flight after the first
\* batch's result was summarised.
C7_Witness ==
    /\ pc = "await"
    /\ cur = 2
    /\ Cardinality(inflight) > 1
    /\ Len(summary) = 1

-----------------------------------------------------------------------------
-----------------------------------------------------------------------------
(* C9: a non-empty list whose every element sanitation rejects is answered *)
(* with a 400 and no provider call (stated for a messaging handle that has *)
(* a method to dispatch with).                                             *)
C9_AllRejectedIs400 ==
    (pc = "done" /\ ~SendMissing(caps)
        /\ tokens.kind = "array" /\ Len(tokens.items) > 0
        /\ \A i \in 1..Len(tokens.items) : ~IsCleanIdentifier(tokens.items[i]))
    => (Answered /\ responses[1].status = 400 /\ calls = <<>>)

-----------------------------------------------------------------------------
(* C10: every per-target report of a 200 response carries indexInBatch,    *)
(* cleanedIndex and originalIndex, with cleanedIndex the batch's start     *)
(* offset (the sizes of the preceding batches) plus indexInBatch and       *)
(* originalIndex the caller's position of the token it describes (stated   *)
(* for the reports built from a per-target provider response).             *)
RECURSIVE SizesBefore(_, _)
SizesBefore(summ, k) == IF k <= 1 THEN 0 ELSE summ[k - 1].batchSize + SizesBefore(summ, k - 1)

C10_IndexRoundTrip ==
    (Answered /\ responses[1].status = 200) =>
        LET reported == responses[1].body.batches
        IN  \A k \in 1..Len(reported) :
              \A i \in 1..Len(reported[k].details) :
                LET d == reported[k].details[i]
                IN  d.success # NULL =>
                    /\ {"indexInBatch", "cleanedIndex", "originalIndex"} \subseteq DOMAIN d
                    /\ d.indexInBatch = i - 1
                    /\ d.cleanedIndex = SizesBefore(reported, k) + d.indexInBatch
                    /\ d.originalIndex = d.cleanedIndex
                    /\ tokens.items[d.originalIndex + 1] = batches[k][i]

-----------------------------------------------------------------------------
\* The messages one provider call carries: the elements of a sendAll
\* array, else the one message.
CallMessages(c) ==
    IF calls[c].method = "sendAll"
    THEN {calls[c].arg[i] : i \in 1..Len(calls[c].arg)}
    ELSE {calls[c].arg}

(* C11: every message handed to the provider, by any call of any strategy  *)
(* for any batch and token, carries data {action: "start_core_service"}    *)
(* and the platform options priority "high" and ttl 60000 ms.              *)
C11_FixedPayload ==
    \A c \in CallIds :
        \A m \in CallMessages(c) :
            /\ m.data = [action |-> "start_core_service"]
            /\ "android" \in DOMAIN m
            /\ m.android = [priority |-> "high", ttl |-> 60000]

-----------------------------------------------------------------------------
\* The send call issued for token i of batch k (every batch before the
\* last has MAX tokens).
SendCall(k, i) == (k - 1) * MAX + i

(* C12: in the per-token strategy, once batch k is dispatched there is a   *)
(* send call for each of its tokens, whatever its siblings have settled    *)
(* with and in whatever order; the batch is summarised, and the request    *)
(* answered, only when none of its calls is in flight; and in every        *)
(* summary detail i describes token i: it is a success iff the call for    *)
(* token i returned, and otherwise carries that call's error text.         *)
C12_JoinedInTokenOrder ==
    (Strategy(caps) = "send" /\ "send" \in caps) =>
        /\ \A k \in 1..Len(batches) :
             (\E c \in CallIds : calls[c].batch = k) =>
                 \A i \in 1..Len(batches[k]) :
                     /\ SendCall(k, i) <= Len(calls)
                     /\ calls[SendCall(k, i)].batch = k
                     /\ calls[SendCall(k, i)].slot = i
                     /\ calls[SendCall(k, i)].arg.token = batches[k][i]
        /\ \A c \in inflight : Len(summary) < calls[c].batch
        /\ pc = "done" => inflight = {}
        /\ \A k \in 1..Len(summary) :
             /\ Len(summary[k].details) = Len(batches[k])
             /\ \A i \in 1..Len(batches[k]) :
                  LET o == outcome[SendCall(k, i)]
                      d == summary[k].details[i]
                  IN  /\ d.index = i - 1
                      /\ d.success = Bool(~o.raised)
                      /\ d.error = IF ~o.raised THEN NULL
                                   ELSE IF o.err.message # "" THEN o.err.message
                                   ELSE o.err.text

\* A batch of three whose first and third sends failed and whose second
\* succeeded, reported in token order.
C12_Witness ==
    /\ Strategy(caps) = "send"
    /\ Answered
    /\ Len(batches) = 1
    /\ Len(calls) = 3
    /\ outcome[1].raised /\ ~outcome[2].raised /\ outcome[3].raised
    /\ outcome[1].err.message = ""
    /\ outcome[3].err.message # ""
    /\ [i \in 1..3 |-> summary[1].details[i].success] = <<"false", "true", "false">>

-----------------------------------------------------------------------------
(* C13: the summary of a batch reports the counts of a result that exposes *)
(* them as they are given; for a result with only a responses array,       *)
(* successCount is the number of successful responses and failureCount the *)
(* number of the others; for a result with neither counts nor per-target   *)
(* responses, details has one entry per batch member, each with success    *)
(* null, error "no per-target info" and the member's index in the batch.   *)
C13_ThreeShapes ==
    pc = "normalized" =>
        LET s == summary[1]
            n == Len(batches[1])
        IN  /\ resp.hasCounts =>
                 (s.successCount = resp.successCount /\ s.failureCount = resp.failureCount)
            /\ (~resp.hasCounts /\ resp.hasResponses) =>
                 /\ s.successCount = CountSuccess(resp.responses)
                 /\ s.failureCount = Len(resp.responses) - CountSuccess(resp.responses)
            /\ (~resp.hasCounts /\ (~resp.hasResponses \/ resp.responses = <<>>)) =>
                 /\ Len(s.details) = n
                 /\ \A i \in 1..n :
                      s.details[i] =
                          [success |-> NULL, error |-> "no per-target info", index |-> i - 1]

\* Three responses without counts, one of them failed: counts 2 and 1.
C13_Witness ==
    /\ pc = "normalized"
    /\ ~resp.hasCounts
    /\ resp.hasResponses
    /\ Len(resp.responses) = 3
    /\ summary[1].successCount = 2
    /\ summary[1].failureCount = 1

-----------------------------------------------------------------------------
\* The number of tokens handed to the provider so far.
RECURSIVE TokensInCalls(_)
TokensInCalls(c) == IF c = 0 THEN 0 ELSE Len(CallTokens(c)) + TokensInCalls(c - 1)

TokensDispatched == IF Strategy(caps) = "send" THEN Len(calls) ELSE TokensInCalls(Len(calls))

(* C14: in a 200 response, batches has exactly one summary per batch, the  *)
(* k-th being that of the k-th batch: its batchSize is the size of the     *)
(* k-th batch and, under a bulk strategy, its counts are those the k-th    *)
(* call returned; the batchSize values add up to the number of tokens      *)
(* handed to the provider, which is the length of the token list.          *)
C14_OneSummaryPerBatch ==
    (Answered /\ responses[1].status = 200) =>
        LET reported == responses[1].body.batches
        IN  /\ Len(reported) = Len(batches)
            /\ \A k \in 1..Len(batches) :
                 /\ reported[k].batchSize = Len(batches[k])
                 /\ (Strategy(caps) \in BulkMethods /\ outcome[k].result.hasCounts) =>
                      /\ reported[k].successCount = outcome[k].result.successCount
                      /\ reported[k].failureCount = outcome[k].result.failureCount
            /\ SizesBefore(reported, Len(reported) + 1) = TokensDispatched
            /\ TokensDispatched = Len(tokens.items)

\* The spec's 1234 tokens: summaries of sizes 500, 500 and 234, each with
\* the counts of its own batch.
C14_Witness ==
    /\ Answered
    /\ responses[1].status = 200
    /\ Len(responses[1].body.batches) = 3
    /\ [k \in 1..3 |-> responses[1].body.batches[k].batchSize] = <<500, 500, 234>>
    /\ [k \in 1..3 |-> responses[1].body.batches[k].failureCount] = <<1, 0, 234>>

-----------------------------------------------------------------------------
\* The calls issued for batch number k.
CallsOfBatch(k) == {c \in CallIds : calls[c].batch = k}

(* C15: a request gets at most one HTTP response, sent when the handler    *)
(* ends; for each batch the batch call is made at most once (one bulk      *)
(* call, or one send per token), also when it failed; and once a batch     *)
(* call has failed the one response is its 500 and nothing was issued      *)
(* after it.                                                               *)
C15_NoRetrySingleResponse ==
    /\ Len(responses) <= 1
    /\ (Len(responses) = 1) <=> (pc = "done")
    /\ \A k \in 1..Len(batches) :
         /\ Strategy(caps) \in BulkMethods => Cardinality(CallsOfBatch(k)) <= 1
         /\ Strategy(caps) = "send" =>
              /\ Cardinality(CallsOfBatch(k)) <= Len(batches[k])
              /\ Cardinality({calls[c].slot : c \in CallsOfBatch(k)}) = Cardinality(CallsOfBatch(k))
         /\ (\E c \in CallsOfBatch(k) : CallRaised(c) /\ calls[c].method \in BulkMethods) =>
              /\ Len(calls) = k
              /\ pc = "done" => responses[1].status = 500

\* The bulk call of the second of two batches failed: two calls in all,
\* one response.
C15_Witness ==
    /\ pc = "done"
    /\ Len(batches) = 2
    /\ Len(calls) = 2
    /\ calls[2].method \in BulkMethods
    /\ CallRaised(2)
    /\ Len(responses) = 1
    /\ responses[1].status = 500

-----------------------------------------------------------------------------
(* What a request served alone looks like, as a relation between its body, *)
(* the outcomes of its own provider calls and its handler's state: the     *)
(* partition of its own token list, the calls of its own batches up to the *)
(* current one, one summary per batch received, each normalised from that  *)
(* batch's own result, and the one response these determine.               *)
RECURSIVE CallsUpTo(_, _, _)
CallsUpTo(methods, bs, k) ==
    IF k = 0 THEN <<>> ELSE CallsUpTo(methods, bs, k - 1) \o IssueCalls(methods, bs[k], k)

ResultOfBatch(bs, outc, j) ==
    IF Strategy(caps) = "send"
    THEN BatchOutcome(caps, outc, SendCall(j, 1), SendCall(j, Len(bs[j])))
    ELSE BatchOutcome(caps, outc, j, j)

LoneRun(p, b, toks, bs, k, summ, cs, outc, rs) ==
    /\ toks = SelectTokens(b)
    /\ IF NoTokens(toks)
       THEN p = "done" /\ cs = <<>> /\ rs = <<BadRequest>>
       ELSE /\ bs = Batches(toks.items)
            /\ IF SendMissing(caps)
               THEN p = "done" /\ cs = <<>> /\ rs = <<SendFailed(NotAFunction)>>
               ELSE /\ cs = CallsUpTo(caps, bs, k)
                    /\ Len(outc) = Len(cs)
                    /\ Len(summ) \in {k - 1, k}
                    /\ \A j \in 1..Len(summ) :
                         /\ ~Rejected(ResultOfBatch(bs, outc, j))
                         /\ summ[j] = Normalize(ResultOfBatch(bs, outc, j).result, bs[j])
                    /\ p = "await" => (rs = <<>> /\ Len(summ) = k - 1)
                    /\ p = "done" =>
                         IF Len(summ) = k
                         THEN k = Len(bs) /\ rs = <<Report(summ)>>
                         ELSE /\ Rejected(ResultOfBatch(bs, outc, k))
                              /\ rs = <<SendFailed(ResultOfBatch(bs, outc, k).err)>>

\* The relation, of the single request of Spec.
LoneRequest ==
    pc # "idle" => LoneRun(pc, body, tokens, batches, cur, summary, calls, outcome, responses)

(* C16: when two requests are interleaved in any way, each request's       *)
(* partition, provider calls, summaries and response are the ones a        *)
(* request served alone has for the same body and the same outcomes of     *)
(* its own calls: nothing of the other request shows in them.              *)
C16_RequestsIsolated ==
    \A r \in Reqs :
        pc[r] # "idle" =>
            LoneRun(pc[r], body[r], tokens[Frame(r)], batches[Frame(r)], cur[r],
                    summary[Frame(r)], calls[r], outcome[r], responses[r])

\* Request 2 was served to its report while request 1, with another body,
\* is between its first and second batch.
C16_Witness ==
    /\ pc[1] = "await"
    /\ cur[1] = 2
    /\ Len(summary[1]) = 1
    /\ pc[2] = "done"
    /\ Len(responses[2]) = 1
    /\ responses[2][1].status = 200
    /\ body[2] # body[1]
    /\ Len(responses[2][1].body.batches) = 1

-----------------------------------------------------------------------------
(* C17: what the client gets for a failed batch call is determined by the  *)
(* error's message alone: errors with the same message (or both without    *)
(* one) give the same 500 response whatever their status, response body    *)
(* or code, and the response sent has the fields success and error only,   *)
(* error being the message, or "send_error" without one.                   *)
C17_OnlyMessageReachesClient ==
    /\ \A e1, e2 \in BatchErrors :
         MessageOf(e1) = MessageOf(e2) => SendFailed(e1) = SendFailed(e2)
    /\ \A c \in CallIds :
         (calls[c].method \in BulkMethods /\ CallRaised(c) /\ pc = "done") =>
             /\ Len(responses) = 1
             /\ responses[1].status = 500
             /\ DOMAIN responses[1].body = {"success", "error"}
             /\ responses[1].body.success = FALSE
             /\ responses[1].body.error =
                  (IF MessageOf(outcome[c].err) # "" THEN MessageOf(outcome[c].err)
                   ELSE "send_error")

\* The bulk call failed with a 401 carrying a response body and a code,
\* and the client got what the message alone gives.
C17_Witness ==
    /\ pc = "done"
    /\ Len(calls) = 1
    /\ calls[1].method \in BulkMethods
    /\ CallRaised(1)
    /\ "response" \in DOMAIN outcome[1].err
    /\ outcome[1].err.response.status = 401
    /\ responses = <<Json(500, [success |-> FALSE, error |-> "fcm transport failure"])>>
    /\ \E e \in BatchErrors :
         e # outcome[1].err /\ "response" \in DOMAIN e /\ MessageOf(e) = MessageOf(outcome[1].err)

-----------------------------------------------------------------------------
(* C18: every summary of a 200 response is consistent in itself, whatever  *)
(* shape the provider's result had: details has batchSize entries,         *)
(* successCount and failureCount add up to batchSize, and successCount is  *)
(* the number of details whose success is true.                            *)
C18_SummaryConsistent ==
    (Answered /\ responses[1].status = 200) =>
        \A k \in 1..Len(responses[1].body.batches) :
            LET s == responses[1].body.batches[k]
            IN  /\ Len(s.details) = s.batchSize
                /\ s.successCount + s.failureCount = s.batchSize
                /\ s.successCount =
                     Cardinality({i \in 1..Len(s.details) : s.details[i].success = "true"})

-----------------------------------------------------------------------------
\* The number of batches for which calls were issued.
Dispatches == Cardinality({calls[c].batch : c \in CallIds})

(* C19: when every provider call in flight is eventually settled, every    *)
(* request that has arrived is eventually answered, with exactly one       *)
(* response, for every list length and strategy; and the handler never     *)
(* dispatches more than ceil(n / MAX) batches for a list of n tokens.      *)
C19_EveryRequestAnswered ==
    /\ [](Accepted => Dispatches <= (Len(tokens.items) + MAX - 1) \div MAX)
    /\ (pc # "idle") ~> Answered

\* A list of MAX + 1 tokens sent token by token was answered after two
\* batch dispatches.
C19_Witness ==
    /\ Answered
    /\ Strategy(caps) = "send"
    /\ Len(tokens.items) = MAX + 1
    /\ Dispatches = 2
    /\ responses[1].status = 200

====
